---- MODULE Spec2Model ----
(***************************************************************************)
(* Model of the subway-crowding data pipeline (data_preprocessing.py) and  *)
(* of the dashboard's aggregation functions (app.py).                      *)
(*                                                                         *)
(* Strings are sequences of characters.  A character is written as a       *)
(* one-token TLA+ string; the Hangul syllables of the source are written   *)
(* by their romanisation ("si" is U+C2DC, "bun" is U+BD84, ...), and Ord   *)
(* gives every character its Unicode code point, which is what Python      *)
(* compares when it orders two strings.                                    *)
(***************************************************************************)
EXTENDS Integers, Sequences, FiniteSets, TLC

VARIABLES
    pc,        \* position of the modelled run
    col,       \* a column name handed to the time-column normaliser
    is_time,   \* result of TIME_COL_RE.match(col)
    label,     \* result of _timecol_to_hhmm(col): [ok, label]
    raw,       \* the raw (wide) table: [cols, rows]
    tidy,      \* the tidy (long) table returned by to_tidy_long
    presort_index,  \* the index of the sorted frame before reset_index
    err,       \* the exception that ended the run, "" when none
    report,    \* the dict returned by quality_report
    passed,    \* the verdict computed by print_report
    csv_file,  \* the raw CSV file: the encodings that parse it, and its table
    attempt,   \* read_raw_csv: the position of the next encoding to try
    tried,     \* read_raw_csv: the encodings tried so far, in order
    files,     \* the output files: [csv, parquet, report]
    files0,    \* the output files as they were when the run began
    df,        \* the tidy table the dashboard has loaded
    selection, \* the dashboard's selection: [day, line, direction]
    op,        \* the aggregation called, "" before the call
    result     \* what the aggregation returned

time_vars == <<col, is_time, label>>
tidy_vars == <<raw, tidy, presort_index, err, report, passed>>
main_vars == <<csv_file, attempt, tried, files, files0>>
agg_vars == <<df, selection, op, result>>
vars == <<pc, col, is_time, label, raw, tidy, presort_index, err, report, passed,
          csv_file, attempt, tried, files, files0, df, selection, op, result>>

(***************************************************************************)
(* Bounds of the model.                                                    *)
(***************************************************************************)
MaxNameLen == 6
MaxExtraCols == 2
MaxCellRows == 2
MaxIdentityRows == 3
MaxAggRows == 3
MaxTopN == 2

(***************************************************************************)
(* Characters and strings.                                                 *)
(***************************************************************************)
\* Unicode code points of the characters the model uses.
Ord ==
    (" " :> 32) @@ ("+" :> 43) @@ ("-" :> 45) @@ ("." :> 46) @@ (":" :> 58)
    @@ ("0" :> 48) @@ ("1" :> 49) @@ ("2" :> 50) @@ ("3" :> 51) @@ ("4" :> 52)
    @@ ("5" :> 53) @@ ("6" :> 54) @@ ("7" :> 55) @@ ("8" :> 56) @@ ("9" :> 57)
    @@ ("E" :> 69) @@ ("N" :> 78) @@ ("a" :> 97) @@ ("b" :> 98) @@ ("c" :> 99) @@ ("e" :> 101)
    @@ ("n" :> 110) @@ ("o" :> 111)
    @@ ("gang" :> 44053) @@ ("go" :> 44256) @@ ("gu" :> 44396) @@ ("nam" :> 45224)
    @@ ("nae" :> 45236) @@ ("bal" :> 48156) @@ ("beon" :> 48264) @@ ("bun" :> 48516)
    @@ ("bi" :> 48708) @@ ("sam" :> 49340) @@ ("sang" :> 49345) @@ ("seo" :> 49436)
    @@ ("seon" :> 49440) @@ ("si" :> 49884) @@ ("yeok" :> 50669) @@ ("oe" :> 50808)
    @@ ("yo" :> 50836) @@ ("ul" :> 50872) @@ ("il" :> 51068) @@ ("chul" :> 52636)
    @@ ("to" :> 53664) @@ ("pyeong" :> 54217) @@ ("ha" :> 54616) @@ ("ho" :> 54840)
    @@ ("FW7" :> 65303)

\* Characters Python's \d and int() take as decimal digits, with their value;
\* "FW7" is the full-width digit seven, U+FF17.
DigitValue ==
    ("0" :> 0) @@ ("1" :> 1) @@ ("2" :> 2) @@ ("3" :> 3) @@ ("4" :> 4)
    @@ ("5" :> 5) @@ ("6" :> 6) @@ ("7" :> 7) @@ ("8" :> 8) @@ ("9" :> 9)
    @@ ("FW7" :> 7)

IsDigit(c) == c \in DOMAIN DigitValue

AsciiDigits == {"0", "1", "2", "3", "4", "5", "6", "7", "8", "9"}

\* Characters str.strip() removes and the pattern's \s matches.
IsSpace(c) == c = " "

\* str.strip()
Strip(s) ==
    LET keep == {i \in 1..Len(s) : ~IsSpace(s[i])}
        lo == CHOOSE i \in keep : \A j \in keep : i <= j
        hi == CHOOSE i \in keep : \A j \in keep : j <= i
    IN IF keep = {} THEN <<>> ELSE SubSeq(s, lo, hi)

\* int(s) for a string of decimal digits
RECURSIVE IntOfDigits(_)
IntOfDigits(s) ==
    IF s = <<>> THEN 0
    ELSE 10 * IntOfDigits(SubSeq(s, 1, Len(s) - 1)) + DigitValue[s[Len(s)]]

\* str(n) for an integer n >= 0
RECURSIVE DecimalDigits(_)
DecimalDigits(n) ==
    LET d == <<"0", "1", "2", "3", "4", "5", "6", "7", "8", "9">>[(n % 10) + 1]
    IN IF n < 10 THEN <<d>> ELSE Append(DecimalDigits(n \div 10), d)

\* (mutant) the digits without the zero padding
Format02d_NoPad(n) == DecimalDigits(n)

\* f"{n:02d}" for n >= 0: the decimal digits, zero-padded to a width of two
Format02d(n) ==
    LET s == DecimalDigits(n) IN IF Len(s) < 2 THEN <<"0">> \o s ELSE s

(***************************************************************************)
(* Time-column detection and labelling.                                    *)
(***************************************************************************)
\* The core of both patterns: \d{1,2} si \d{2} bun, anchored at both ends.
\* Gives the set of hour widths with which s matches (empty when it does not).
HourWidths(s) ==
    {h \in 1..2 :
        /\ Len(s) = h + 4
        /\ \A i \in 1..h : IsDigit(s[i])
        /\ s[h + 1] = "si"
        /\ IsDigit(s[h + 2])
        /\ IsDigit(s[h + 3])
        /\ s[h + 4] = "bun"}

\* TIME_COL_RE.match(c) is not None, for ^\s*\d{1,2}si\d{2}bun\s*$
TIME_COL_RE(c) ==
    \E a \in 0..Len(c), b \in 0..Len(c) :
        /\ a + b <= Len(c)
        /\ \A i \in 1..a : IsSpace(c[i])
        /\ \A i \in (Len(c) - b + 1)..Len(c) : IsSpace(c[i])
        /\ HourWidths(SubSeq(c, a + 1, Len(c) - b)) # {}

\* (mutant) hour and minute exchanged
timecol_to_hhmm_Swapped(c) ==
    LET s == Strip(c)
        ws == HourWidths(s)
        h == CHOOSE w \in ws : TRUE
        hh == IntOfDigits(SubSeq(s, 1, h))
        mm == IntOfDigits(SubSeq(s, h + 2, h + 3))
    IN IF ws = {} THEN [ok |-> FALSE, label |-> <<>>]
       ELSE [ok |-> TRUE, label |-> Format02d(mm) \o <<":">> \o Format02d(hh)]

\* _timecol_to_hhmm(col): [ok |-> TRUE, label |-> "HH:MM"], or the ValueError
timecol_to_hhmm(c) ==
    LET s == Strip(c)
        ws == HourWidths(s)
        h == CHOOSE w \in ws : TRUE
        hh == IntOfDigits(SubSeq(s, 1, h))
        mm == IntOfDigits(SubSeq(s, h + 2, h + 3))
    IN IF ws = {} THEN [ok |-> FALSE, label |-> <<>>]
       ELSE [ok |-> TRUE, label |-> Format02d(hh) \o <<":">> \o Format02d(mm)]

NoLabel == [ok |-> FALSE, label |-> <<"-">>]

(***************************************************************************)
(* Inputs of the normaliser: every string over a small alphabet up to      *)
(* MaxNameLen characters, and the names the specification cites.           *)
(***************************************************************************)
NameAlphabet == {"0", "7", "si", "bun", " "}

RECURSIVE StringsUpTo(_, _)
StringsUpTo(A, n) ==
    IF n = 0 THEN {<<>>}
    ELSE LET shorter == StringsUpTo(A, n - 1)
         IN shorter \cup {Append(s, c) : s \in {t \in shorter : Len(t) = n - 1}, c \in A}

CitedNames ==
    { <<"7", "si", "3", "0", "bun">>,
      <<"2", "3", "si", "5", "9", "bun">>,
      <<"0", "si", "0", "bun">>,
      <<"0", "si", "0", "0", "bun">>,
      <<"8", "si", "0", "bun">>,
      <<"8", "si", "0", "0", "bun">>,
      <<"5", "si", "3", "0", "bun">>,
      <<"FW7", "si", "3", "0", "bun">>,
      <<" ", "2", "3", "si", "5", "9", "bun", " ">>,
      <<"7", "si", "3", "0", "bun", ".", "1">>,
      <<"1", "2", "3", "si", "0", "0", "bun">>,
      <<"bi", "go">> }

ColumnNames == StringsUpTo(NameAlphabet, MaxNameLen) \cup CitedNames

(***************************************************************************)
(* Values of the tables.                                                   *)
(* A raw cell is a number, a missing value (NaN or None) or a text; the    *)
(* numbers of the raw cells are whole.  A crowding value of the tidy table *)
(* is NaN or a real number, kept as the fraction v / d in lowest terms     *)
(* with d > 0 (floating-point rounding is left out).                       *)
(***************************************************************************)
Num(v) == [t |-> "num", n |-> v, s |-> <<>>]
Null == [t |-> "nan", n |-> 0, s |-> <<>>]
None == [t |-> "none", n |-> 0, s |-> <<>>]
Text(chars) == [t |-> "str", n |-> 0, s |-> chars]

NaN == [na |-> TRUE, v |-> 0, d |-> 1]
Real(v) == [na |-> FALSE, v |-> v, d |-> 1]

RECURSIVE GCD(_, _)
GCD(a, b) == IF b = 0 THEN a ELSE GCD(b, a % b)

\* the real number p / q, for q > 0
Quotient(p, q) ==
    LET g == GCD(IF p < 0 THEN -p ELSE p, q)
    IN [na |-> FALSE, v |-> p \div g, d |-> q \div g]

RECURSIVE Pow10(_)
Pow10(n) == IF n = 0 THEN 1 ELSE 10 * Pow10(n - 1)

\* a < b for two real numbers
RealLess(a, b) == a.v * b.d < b.v * a.d

\* the cells of the column at position p of the frame t
ColumnCells(t, p) == {t.rows[r][p] : r \in 1..Len(t.rows)}

\* Series.dtype of a column holding the cells: whole numbers alone are
\* int64, numbers with a missing value are float64, and a column holding a
\* text or None is object
dtype(cells) ==
    IF cells = {} \/ \E c \in cells : c.t \in {"str", "none"} THEN "object"
    ELSE IF \E c \in cells : c.t = "nan" THEN "float64"
    ELSE "int64"

\* Series.astype(str), cell by cell, for a column of the dtype dt: a whole
\* number of a float64 column is written with ".0"
AsStr(cell, dt) ==
    CASE cell.t = "num" ->
            (IF cell.n < 0 THEN <<"-">> \o DecimalDigits(-cell.n)
             ELSE DecimalDigits(cell.n))
            \o (IF dt = "float64" THEN <<".", "0">> ELSE <<>>)
      [] cell.t = "nan" -> <<"n", "a", "n">>
      [] cell.t = "none" -> <<"N", "o", "n", "e">>
      [] OTHER -> cell.s

\* the keys of .replace({"": np.nan, "nan": np.nan, "None": np.nan})
MissingTokens == {<<>>, <<"n", "a", "n">>, <<"N", "o", "n", "e">>}

\* The number pd.to_numeric's parser reads from a text without sign: ASCII
\* digits with at most one "." among them and at least one digit, then
\* possibly "e" or "E", an optional sign and ASCII digits.  NaN for any
\* other text.
ParseDecimal(u) ==
    LET es == {i \in 1..Len(u) : u[i] \in {"e", "E"}}
        e == IF es = {} THEN Len(u) + 1 ELSE CHOOSE i \in es : \A j \in es : i <= j
        m == SubSeq(u, 1, e - 1)
        x == IF e >= Len(u) THEN <<>> ELSE SubSeq(u, e + 1, Len(u))
        dots == {i \in 1..Len(m) : m[i] = "."}
        p == IF dots = {} THEN Len(m) + 1 ELSE CHOOSE i \in dots : TRUE
        whole == SubSeq(m, 1, p - 1)
        frac == IF p >= Len(m) THEN <<>> ELSE SubSeq(m, p + 1, Len(m))
        xsigned == x # <<>> /\ x[1] \in {"+", "-"}
        xdigits == IF xsigned THEN Tail(x) ELSE x
        OnlyAsciiDigits(t) == \A i \in 1..Len(t) : t[i] \in AsciiDigits
        ok == /\ Cardinality(dots) <= 1
              /\ OnlyAsciiDigits(whole)
              /\ OnlyAsciiDigits(frac)
              /\ Len(whole) + Len(frac) > 0
              /\ es # {} => xdigits # <<>> /\ OnlyAsciiDigits(xdigits)
        power == (IF xsigned /\ x[1] = "-" THEN -IntOfDigits(xdigits)
                  ELSE IntOfDigits(xdigits)) - Len(frac)
        digits == IntOfDigits(whole \o frac)
    IN IF ~ok THEN NaN
       ELSE IF power >= 0 THEN Quotient(digits * Pow10(power), 1)
       ELSE Quotient(digits, Pow10(-power))

\* (mutant) to_numeric taking no sign
ToNumeric_NoSign(text) == ParseDecimal(Strip(text))

\* pd.to_numeric(errors="coerce") on one text: the parser skips white space
\* at both ends and takes one sign, "+" or "-"; a text it cannot read is NaN
ToNumeric(text) ==
    LET s == Strip(text)
        signed == s # <<>> /\ s[1] \in {"+", "-"}
        x == ParseDecimal(IF signed THEN Tail(s) ELSE s)
    IN IF signed /\ s[1] = "-" /\ ~x.na THEN Quotient(-x.v, x.d) ELSE x

\* (mutant) negative values clamped to zero
CleanCell_Clamped(cell, dt) ==
    LET s == Strip(AsStr(cell, dt))
        x == ToNumeric(s)
    IN IF s \in MissingTokens THEN NaN
       ELSE IF ~x.na /\ x.v < 0 THEN Real(0) ELSE x

\* lines 62-68: astype(str), str.strip(), replace(...), to_numeric(coerce),
\* for a cell of a column of the dtype dt
CleanCell(cell, dt) ==
    LET s == Strip(AsStr(cell, dt))
    IN IF s \in MissingTokens THEN NaN ELSE ToNumeric(s)

(***************************************************************************)
(* to_tidy_long                                                            *)
(***************************************************************************)
COL_DAY == <<"yo", "il", "gu", "bun">>
COL_LINE == <<"ho", "seon">>
COL_CODE == <<"yeok", "beon", "ho">>
COL_NAME == <<"chul", "bal", "yeok">>
COL_DIR == <<"sang", "ha", "gu", "bun">>

base_cols == <<COL_DAY, COL_LINE, COL_CODE, COL_NAME, COL_DIR>>

Range(f) == {f[i] : i \in DOMAIN f}

\* line 43: the identity columns that df_raw.columns lacks
missing(cols) == SelectSeq(base_cols, LAMBDA c : c \notin Range(cols))

\* line 47: the positions, left to right, of the columns TIME_COL_RE matches
time_col_positions(cols) ==
    LET RECURSIVE Scan(_)
        Scan(i) == IF i > Len(cols) THEN <<>>
                   ELSE IF TIME_COL_RE(cols[i]) THEN <<i>> \o Scan(i + 1)
                   ELSE Scan(i + 1)
    IN Scan(1)

\* line 47: time_cols, the names of those columns
time_cols(cols) ==
    LET pos == time_col_positions(cols) IN [k \in 1..Len(pos) |-> cols[pos[k]]]

\* (mutant) orders counted from one
time_order_map_FromOne(cols) ==
    LET tc == time_cols(cols)
    IN [c \in Range(tc) |->
           CHOOSE i \in 1..Len(tc) :
               /\ tc[i] = c
               /\ \A j \in 1..Len(tc) : tc[j] = c => j <= i]

\* line 54: {c: i for i, c in enumerate(time_cols)}; a name met again
\* overwrites its earlier entry
time_order_map(cols) ==
    LET tc == time_cols(cols)
    IN [c \in Range(tc) |->
           (CHOOSE i \in 1..Len(tc) :
               /\ tc[i] = c
               /\ \A j \in 1..Len(tc) : tc[j] = c => j <= i) - 1]

\* line 55: {c: _timecol_to_hhmm(c.strip()) for c in time_cols}
time_label_map(cols) ==
    [c \in Range(time_cols(cols)) |-> timecol_to_hhmm(Strip(c))]

\* the position of the column named c (df[c] for a name held once)
ColumnPosition(cols, c) == CHOOSE i \in 1..Len(cols) : cols[i] = c

\* (mutant) the melted frame without the rows whose crowding is null
Melted_DropNull(t) ==
    SelectSeq(
        LET tc == time_cols(t.cols)
            pos == time_col_positions(t.cols)
            labels == time_label_map(t.cols)
            orders == time_order_map(t.cols)
            R == Len(t.rows)
            at == [c \in Range(base_cols) |-> ColumnPosition(t.cols, c)]
            cell_dtype == [k \in 1..Len(tc) |-> dtype(ColumnCells(t, pos[k]))]
            code_dtype == dtype(ColumnCells(t, at[COL_CODE]))
        IN [j \in 1..(Len(tc) * R) |->
               LET k == ((j - 1) \div R) + 1
                   r == ((j - 1) % R) + 1
               IN [day_type |-> t.rows[r][at[COL_DAY]].s,
                   line |-> t.rows[r][at[COL_LINE]].s,
                   station_code |-> Strip(AsStr(t.rows[r][at[COL_CODE]], code_dtype)),
                   station_name |-> t.rows[r][at[COL_NAME]].s,
                   direction |-> t.rows[r][at[COL_DIR]].s,
                   time_label |-> labels[tc[k]].label,
                   time_order |-> orders[tc[k]],
                   crowding |-> CleanCell(t.rows[r][pos[k]], cell_dtype[k])]],
        LAMBDA row : ~row.crowding.na)

\* lines 59-96: the cleaning of the time columns, melt, the two maps, the
\* renaming and the station_code clean-up.  melt lists the frame value column by value column, each with
\* the raw rows top to bottom.
Melted(t) ==
    LET tc == time_cols(t.cols)
        pos == time_col_positions(t.cols)
        labels == time_label_map(t.cols)
        orders == time_order_map(t.cols)
        R == Len(t.rows)
        at == [c \in Range(base_cols) |-> ColumnPosition(t.cols, c)]
        cell_dtype == [k \in 1..Len(tc) |-> dtype(ColumnCells(t, pos[k]))]
        code_dtype == dtype(ColumnCells(t, at[COL_CODE]))
    IN [j \in 1..(Len(tc) * R) |->
           LET k == ((j - 1) \div R) + 1
               r == ((j - 1) % R) + 1
           IN [day_type |-> t.rows[r][at[COL_DAY]].s,
               line |-> t.rows[r][at[COL_LINE]].s,
               station_code |-> Strip(AsStr(t.rows[r][at[COL_CODE]], code_dtype)),
               station_name |-> t.rows[r][at[COL_NAME]].s,
               direction |-> t.rows[r][at[COL_DIR]].s,
               time_label |-> labels[tc[k]].label,
               time_order |-> orders[tc[k]],
               crowding |-> CleanCell(t.rows[r][pos[k]], cell_dtype[k])]]

\* a < b for two Python strings: the first differing character decides by
\* code point, and a proper prefix is smaller
StrLess(a, b) ==
    \E k \in 1..Len(b) :
        /\ \A i \in 1..(k - 1) : i <= Len(a) /\ a[i] = b[i]
        /\ \/ k = Len(a) + 1
           \/ k <= Len(a) /\ Ord[a[k]] < Ord[b[k]]

\* (mutant) the sort key without station_code
SortKeyLess_NoStationCode(x, y) ==
    LET kx == <<x.day_type, x.line, x.direction>>
        ky == <<y.day_type, y.line, y.direction>>
    IN \/ \E k \in 1..3 :
              /\ \A i \in 1..(k - 1) : kx[i] = ky[i]
              /\ StrLess(kx[k], ky[k])
       \/ kx = ky /\ x.time_order < y.time_order

\* line 99: row x sorts strictly before row y under
\* ["day_type", "line", "station_code", "direction", "time_order"]
SortKeyLess(x, y) ==
    LET kx == <<x.day_type, x.line, x.station_code, x.direction>>
        ky == <<y.day_type, y.line, y.station_code, y.direction>>
    IN \/ \E k \in 1..4 :
              /\ \A i \in 1..(k - 1) : kx[i] = ky[i]
              /\ StrLess(kx[k], ky[k])
       \/ kx = ky /\ x.time_order < y.time_order

\* line 99: sort_values on several columns is a stable sort; the result is
\* the frame's index after the sort, i.e. the position each row came from
RECURSIVE SortedIndex(_, _)
SortedIndex(rows, n) ==
    IF n = 0 THEN <<>>
    ELSE LET before == SortedIndex(rows, n - 1)
             p == Cardinality({j \in 1..Len(before) :
                                  ~SortKeyLess(rows[n], rows[before[j]])})
         IN SubSeq(before, 1, p) \o <<n>> \o SubSeq(before, p + 1, Len(before))

\* (mutant) to_tidy_long looking for the time columns before the identity
\* columns
to_tidy_long_TimeColumnsFirst(t) ==
    LET tc == time_cols(t.cols)
        failed(e) == [err |-> e, tidy |-> <<>>, index |-> <<>>]
    IN IF tc = <<>> THEN failed("ValueError: no time columns")
       ELSE IF missing(t.cols) # <<>> THEN failed("ValueError: missing columns")
       ELSE IF \E c \in Range(tc) : ~timecol_to_hhmm(Strip(c)).ok
            THEN failed("ValueError: time column parse")
       ELSE IF Cardinality(Range(tc)) < Len(tc) THEN failed("AttributeError")
       ELSE LET m == Melted(t)
                idx == SortedIndex(m, Len(m))
            IN [err |-> "", tidy |-> [i \in 1..Len(m) |-> m[idx[i]]], index |-> idx]

\* to_tidy_long(df_raw): the tidy table, or the exception raised
to_tidy_long(t) ==
    LET tc == time_cols(t.cols)
        failed(e) == [err |-> e, tidy |-> <<>>, index |-> <<>>]
    IN IF missing(t.cols) # <<>> THEN failed("ValueError: missing columns")
       ELSE IF tc = <<>> THEN failed("ValueError: no time columns")
       ELSE IF \E c \in Range(tc) : ~timecol_to_hhmm(Strip(c)).ok
            THEN failed("ValueError: time column parse")
       \* df[c] is a DataFrame for a name held by two columns: no .str
       ELSE IF Cardinality(Range(tc)) < Len(tc) THEN failed("AttributeError")
       ELSE LET m == Melted(t)
                idx == SortedIndex(m, Len(m))
            IN [err |-> "", tidy |-> [i \in 1..Len(m) |-> m[idx[i]]], index |-> idx]

(***************************************************************************)
(* quality_report and print_report                                         *)
(***************************************************************************)
key_cols(r) ==
    <<r.day_type, r.line, r.station_code, r.station_name, r.direction, r.time_label>>

grp_cols(r) ==
    <<r.day_type, r.line, r.station_code, r.station_name, r.direction>>

\* line 110: tidy.duplicated(key_cols).sum(), the rows whose key occurred
\* in an earlier row
dup_cnt(td) ==
    Cardinality({i \in 1..Len(td) :
                    \E j \in 1..(i - 1) : key_cols(td[j]) = key_cols(td[i])})

\* (mutant) the all-zero groups counted over their values that are not null
all_zero_rows_SkippingNulls(td) ==
    Cardinality({g \in {grp_cols(td[i]) : i \in 1..Len(td)} :
                    \A i \in 1..Len(td) :
                        grp_cols(td[i]) = g /\ ~td[i].crowding.na => td[i].crowding.v = 0})

\* lines 121-123: the groups s with s.notna().all() and (s == 0).all()
all_zero_rows(td) ==
    Cardinality({g \in {grp_cols(td[i]) : i \in 1..Len(td)} :
                    /\ \A i \in 1..Len(td) : grp_cols(td[i]) = g => ~td[i].crowding.na
                    /\ \A i \in 1..Len(td) :
                           grp_cols(td[i]) = g => ~td[i].crowding.na /\ td[i].crowding.v = 0})

\* lines 104-154; the report's counts and the extremes of crowding
quality_report(td) ==
    LET vals == {i \in 1..Len(td) : ~td[i].crowding.na}
        groups == {grp_cols(td[i]) : i \in 1..Len(td)}
    IN [rows_tidy |-> Len(td),
        unique_stations |->
            Cardinality({<<td[i].station_code, td[i].station_name>> : i \in 1..Len(td)}),
        unique_station_direction_combinations |-> Cardinality(groups),
        duplicate_key_rows |-> dup_cnt(td),
        crowding_nan_count |-> Len(td) - Cardinality(vals),
        negative_crowding_count |->
            Cardinality({i \in vals : td[i].crowding.v < 0}),
        crowding_over_200_count |->
            Cardinality({i \in vals : td[i].crowding.v > 200 * td[i].crowding.d}),
        all_time_zero_station_direction_rows |-> all_zero_rows(td),
        crowding_min |->
            IF vals = {} THEN NaN
            ELSE td[CHOOSE i \in vals :
                        \A j \in vals : ~RealLess(td[j].crowding, td[i].crowding)].crowding,
        crowding_max |->
            IF vals = {} THEN NaN
            ELSE td[CHOOSE i \in vals :
                        \A j \in vals : ~RealLess(td[i].crowding, td[j].crowding)].crowding]

\* (mutant) the over-200 count made part of the verdict
completion_passed_Over200(rep) ==
    /\ rep.duplicate_key_rows = 0
    /\ rep.negative_crowding_count = 0
    /\ rep.crowding_over_200_count = 0

\* lines 191-194 of print_report
completion_passed(rep) ==
    /\ rep.duplicate_key_rows = 0
    /\ rep.negative_crowding_count = 0

NoReport ==
    [rows_tidy |-> 0, unique_stations |-> 0,
     unique_station_direction_combinations |-> 0, duplicate_key_rows |-> 0,
     crowding_nan_count |-> 0, negative_crowding_count |-> 0,
     crowding_over_200_count |-> 0, all_time_zero_station_direction_rows |-> 0,
     crowding_min |-> NaN, crowding_max |-> NaN]

(***************************************************************************)
(* Files of main().                                                        *)
(***************************************************************************)
\* (mutant) the encodings with the first two exchanged
ENCODINGS_Cp949First == <<"cp949", "utf-8-sig", "euc-kr">>

\* line 18: the encodings read_raw_csv tries, in the order of the loop
ENCODINGS == <<"utf-8-sig", "cp949", "euc-kr">>

NoTable == [cols |-> <<>>, rows |-> <<>>]

\* An output file is absent, holds what an earlier run wrote ("old"), holds
\* what this run wrote ("new"), or holds the beginning of what this run was
\* writing when the write raised ("partial": anything from no byte at all to
\* all but the last, the earlier content gone).
NoFiles == [csv |-> "absent", parquet |-> "absent", report |-> "absent"]

\* the values of the dashboard's variables in a run of the pipeline
AggIdle ==
    /\ df = <<>>
    /\ selection = [day |-> <<>>, line |-> <<>>, direction |-> <<>>]
    /\ op = [name |-> "", rush_hour_type |-> "", top_n |-> 0, sort_by |-> ""]
    /\ result = <<>>

\* the values of main's variables in a run that does not read or write files
MainIdle ==
    /\ csv_file = [parses |-> {}, table |-> NoTable]
    /\ attempt = 1
    /\ tried = <<>>
    /\ files = NoFiles
    /\ files0 = NoFiles
    /\ AggIdle

(***************************************************************************)
(* Raw tables handed to to_tidy_long.                                      *)
(***************************************************************************)
Str_pyeongil == <<"pyeong", "il">>
Str_toyoil == <<"to", "yo", "il">>
Str_2hoseon == <<"2", "ho", "seon">>
Str_gangnam == <<"gang", "nam">>
Str_seoulyeok == <<"seo", "ul", "yeok">>
Str_yeoksam == <<"yeok", "sam">>
Str_naeseon == <<"nae", "seon">>
Str_oeseon == <<"oe", "seon">>

T_0730 == <<"7", "si", "3", "0", "bun">>
T_0730_padded == <<"0", "7", "si", "3", "0", "bun">>
T_0800 == <<"8", "si", "0", "0", "bun">>
T_0800_short == <<"8", "si", "0", "bun">>
T_2330 == <<"2", "3", "si", "3", "0", "bun">>
T_0030 == <<"0", "si", "3", "0", "bun">>
Bigo == <<"bi", "go">>

ExtraNames == {T_0730, T_0730_padded, T_0800, T_0800_short, T_2330, T_0030, Bigo}

\* The identity cells of a raw row: day type, line, station code, station
\* name, direction.
Identities ==
    { <<Text(Str_pyeongil), Text(Str_2hoseon), Num(222), Text(Str_gangnam), Text(Str_naeseon)>>,
      <<Text(Str_pyeongil), Text(Str_2hoseon), Text(<<" ", "2", "2", "2">>), Text(Str_gangnam), Text(Str_naeseon)>>,
      <<Text(Str_pyeongil), Text(Str_2hoseon), Num(1000), Text(Str_yeoksam), Text(Str_naeseon)>>,
      <<Text(Str_pyeongil), Text(Str_2hoseon), Num(222), Text(Str_seoulyeok), Text(Str_naeseon)>>,
      <<Text(Str_toyoil), Text(Str_2hoseon), Num(222), Text(Str_gangnam), Text(Str_oeseon)>>,
      <<Text(Str_pyeongil), Text(Str_2hoseon), Null, Text(Str_gangnam), Text(Str_naeseon)>> }

Gangnam222 ==
    <<Text(Str_pyeongil), Text(Str_2hoseon), Num(222), Text(Str_gangnam), Text(Str_naeseon)>>

Yeoksam1000 ==
    <<Text(Str_pyeongil), Text(Str_2hoseon), Num(1000), Text(Str_yeoksam), Text(Str_naeseon)>>

NumberCells == {Num(150), Num(-5), Num(0), Num(250), Null}

TextCells ==
    { Text(<<>>), Text(<<" ">>), Text(<<"n", "a", "n">>), Text(<<"N", "o", "n", "e">>),
      Text(<<" ", "1", "5", "0", " ">>), Text(<<"-", "5">>), Text(<<" ", "-", "5", " ">>),
      Text(<<"1", " ", "5">>), Text(<<"-">>), Text(<<"0">>), Text(<<"-", "0">>),
      Text(<<"n", "o", "n", "e">>), Text(<<"a", "b", "c">>), None, Null,
      Text(<<"1", "5", "0", ".", "0">>), Text(<<"1", ".", "5">>), Text(<<"-", "1", ".", "5">>),
      Text(<<"+", "5">>), Text(<<"+", "-", "5">>), Text(<<".", "5">>), Text(<<"5", ".">>),
      Text(<<".">>), Text(<<"1", ".", "2", ".", "3">>), Text(<<"2", "0", "0", ".", "5">>),
      Text(<<"1", "e", "2">>), Text(<<"2", "5", "E", "-", "1">>), Text(<<"1", "e">>),
      Text(<<"-", "0", ".", "0">>), Text(<<"N", "a", "N">>), Text(<<"FW7">>) }

\* A raw row under the header cols: the identity cells under the identity
\* columns, and cells[j] under the j-th other column.
RawRow(cols, ident, cells) ==
    [i \in 1..Len(cols) |->
        IF \E k \in 1..5 : base_cols[k] = cols[i]
        THEN ident[CHOOSE k \in 1..5 : base_cols[k] = cols[i]]
        ELSE cells[Cardinality({j \in 1..i : cols[j] \notin Range(base_cols)})]]

ExtraSeqs == StringsUpTo(ExtraNames, MaxExtraCols)

\* Headers: the identity columns with other columns before and after them,
\* or with one identity column absent.
Headers ==
    {SubSeq(x[1], 1, x[2]) \o base_cols \o SubSeq(x[1], x[2] + 1, Len(x[1])) :
        x \in {y \in ExtraSeqs \X (0..MaxExtraCols) : y[2] <= Len(y[1])}}
    \cup {SelectSeq(base_cols, LAMBDA c : c # base_cols[m]) \o e :
            m \in 1..5, e \in {x \in ExtraSeqs : Len(x) <= 1}}

\* Tables of every header, with no row or with one row whose j-th other
\* column holds 150, 180, 210, ...
HeaderTables ==
    {[cols |-> h,
      rows |-> [r \in 1..n |-> RawRow(h, Gangnam222, [j \in 1..Len(h) |-> Num(120 + 30 * j)])]] :
        h \in Headers, n \in 0..1}

\* Tables of two time columns whose cells vary, row by row; the first row
\* is a row of one station, a later row of that station or of another.
CellHeader == base_cols \o <<T_0730, T_0800>>

FirstCellRows ==
    {RawRow(CellHeader, Gangnam222, <<a, b>>) : a \in NumberCells, b \in NumberCells}

LaterCellRows ==
    {RawRow(CellHeader, i, <<a, b>>) :
        i \in {Gangnam222, Yeoksam1000}, a \in NumberCells, b \in NumberCells}

IsCellTable(t) ==
    \E n \in 0..MaxCellRows :
        \E rs \in [1..n -> LaterCellRows] :
            /\ n > 0 => rs[1] \in FirstCellRows
            /\ t = [cols |-> CellHeader, rows |-> rs]

\* Tables of two time columns whose rows' identities vary; the cell of row
\* r under the j-th time column is 10 r + j.
IdentityTables ==
    LET hs == {base_cols \o <<T_0730, T_0800>>, base_cols \o <<T_0730, T_0730_padded>>,
               base_cols \o <<T_2330, T_0030>>}
    IN {[cols |-> h,
         rows |-> [r \in 1..Len(ids) |-> RawRow(h, ids[r], <<Num(10 * r + 1), Num(10 * r + 2)>>)]] :
            h \in hs, ids \in StringsUpTo(Identities, MaxIdentityRows)}

\* Tables of one row and one time column holding a text or a missing value.
TextTables ==
    {[cols |-> base_cols \o <<T_0730>>,
      rows |-> <<RawRow(base_cols \o <<T_0730>>, Gangnam222, <<c>>)>>] : c \in TextCells}


(***************************************************************************)
(* The run: to_tidy_long, quality_report, print_report (main, steps 2, 3). *)
(***************************************************************************)
TidyInit ==
    /\ pc = "transform"
    /\ \/ raw \in HeaderTables
       \/ IsCellTable(raw)
       \/ raw \in IdentityTables
       \/ raw \in TextTables
    /\ tidy = <<>>
    /\ presort_index = <<>>
    /\ err = ""
    /\ report = NoReport
    /\ passed = FALSE
    /\ MainIdle
    /\ col = <<>>
    /\ is_time = FALSE
    /\ label = NoLabel

ToTidyLong ==
    /\ pc = "transform"
    /\ \E res \in {to_tidy_long(raw)} :
           /\ tidy' = res.tidy
           /\ presort_index' = res.index
           /\ err' = res.err
           /\ pc' = IF res.err = "" THEN "validate" ELSE "failed"
    /\ UNCHANGED <<raw, report, passed, time_vars, main_vars, agg_vars>>

QualityReport ==
    /\ pc = "validate"
    /\ report' = quality_report(tidy)
    /\ pc' = "print"
    /\ UNCHANGED <<raw, tidy, presort_index, err, passed, time_vars, main_vars, agg_vars>>

PrintReport ==
    /\ pc = "print"
    /\ passed' = completion_passed(report)
    /\ pc' = "save_csv"
    /\ UNCHANGED <<raw, tidy, presort_index, err, report, time_vars, main_vars, agg_vars>>

TidyNext == ToTidyLong \/ QualityReport \/ PrintReport

TidySpec == TidyInit /\ [][TidyNext]_vars

(***************************************************************************)
(* main(): read_raw_csv, to_tidy_long, quality_report, print_report, then  *)
(* the three writes.                                                       *)
(***************************************************************************)
\* A file of one row of station 222 with the given further columns.
ScenarioFile(names, cells) ==
    [cols |-> base_cols \o names,
     rows |-> <<RawRow(base_cols \o names, Gangnam222, cells)>>]

\* Tables a raw CSV file may hold, column names as written in the file.
FileTables ==
    { ScenarioFile(<<T_0730, T_0800>>, <<Num(150), Num(180)>>),
      ScenarioFile(<<<<" ">> \o T_0730, T_0800 \o <<" ">>>>, <<Num(-5), Num(250)>>),
      ScenarioFile(<<T_0730, <<" ">> \o T_0730>>, <<Num(150), Num(180)>>),
      ScenarioFile(<<T_0730, T_0730_padded>>, <<Num(150), Null>>),
      ScenarioFile(<<Bigo>>, <<Text(<<"a", "b", "c">>)>>),
      [cols |-> Tail(base_cols) \o <<T_0730>>,
       rows |-> <<RawRow(Tail(base_cols) \o <<T_0730>>, Gangnam222, <<Num(150)>>)>>],
      [cols |-> base_cols \o <<T_0730>>, rows |-> <<>>] }

\* What the output directory may hold when the run begins.
PriorFiles ==
    { NoFiles,
      [csv |-> "old", parquet |-> "old", report |-> "old"],
      [csv |-> "old", parquet |-> "absent", report |-> "absent"] }

MainInit ==
    /\ pc = "read"
    /\ csv_file \in [parses : SUBSET Range(ENCODINGS), table : FileTables]
    /\ attempt = 1
    /\ tried = <<>>
    /\ files0 \in PriorFiles
    /\ files = files0
    /\ AggIdle
    /\ raw = NoTable
    /\ tidy = <<>>
    /\ presort_index = <<>>
    /\ err = ""
    /\ report = NoReport
    /\ passed = FALSE
    /\ col = <<>>
    /\ is_time = FALSE
    /\ label = NoLabel

\* lines 18-26: one turn of read_raw_csv's loop, and the raise after the
\* last turn.  The returned frame has its column names stripped.
ReadRawCsv ==
    /\ pc = "read"
    /\ tried' = Append(tried, ENCODINGS[attempt])
    /\ IF ENCODINGS[attempt] \in csv_file.parses
       THEN /\ raw' = [cols |-> [i \in 1..Len(csv_file.table.cols) |->
                                    Strip(csv_file.table.cols[i])],
                       rows |-> csv_file.table.rows]
            /\ pc' = "transform"
            /\ UNCHANGED <<attempt, err>>
       ELSE /\ IF attempt = Len(ENCODINGS)
               THEN pc' = "failed" /\ err' = "read error: " \o ENCODINGS[attempt]
                    /\ UNCHANGED attempt
               ELSE pc' = "read" /\ attempt' = attempt + 1 /\ UNCHANGED err
            /\ UNCHANGED raw
    /\ UNCHANGED <<csv_file, files, files0, tidy, presort_index, report, passed,
                   time_vars, agg_vars>>

\* A write ends well or raises.  It raises before the path is opened (no
\* parquet engine installed, no permission, no such directory) or after:
\* to_csv, to_parquet and open(report_json, "w") open the final path itself
\* for writing, which empties the file, and write into it; nothing is
\* written to a temporary file and renamed.
WriteOutcomes == {"written", "raised before opening", "raised part-way"}

\* the output files after main's write of one of them
AfterWrite(which, outcome) ==
    CASE outcome = "written" -> [files EXCEPT ![which] = "new"]
      [] outcome = "raised part-way" -> [files EXCEPT ![which] = "partial"]
      [] OTHER -> files

Save(which, at, next) ==
    /\ pc = at
    /\ \E outcome \in WriteOutcomes :
           /\ files' = AfterWrite(which, outcome)
           /\ IF outcome = "written"
              THEN pc' = next /\ UNCHANGED err
              ELSE pc' = "failed" /\ err' = "write error"
    /\ UNCHANGED <<csv_file, attempt, tried, files0, raw, tidy, presort_index,
                   report, passed, time_vars, agg_vars>>

\* line 230: tidy.to_csv(output_csv, ...)
SaveCsv == Save("csv", "save_csv", "save_parquet")

\* line 233: tidy.to_parquet(output_parquet, ...)
SaveParquet == Save("parquet", "save_parquet", "save_report")

\* lines 236-237: open(report_json, "w", ...) and json.dump(report, f, ...)
SaveReport == Save("report", "save_report", "done")

MainNext ==
    \/ ReadRawCsv
    \/ ToTidyLong
    \/ QualityReport
    \/ PrintReport
    \/ SaveCsv
    \/ SaveParquet
    \/ SaveReport

MainSpec == MainInit /\ [][MainNext]_vars

(***************************************************************************)
(* The dashboard's aggregations (app.py).  An aggregation is given as the  *)
(* set of the results it can return: sort_values on one column is not a    *)
(* stable sort, so the order of rows with equal keys is the build's        *)
(* choice, and so is what idxmax does with a Series that is all NaN.       *)
(***************************************************************************)
HHMM(a, b, c, d) == <<a, b, ":", c, d>>

RUSH_HOUR_MORNING ==
    <<HHMM("0", "7", "3", "0"), HHMM("0", "8", "0", "0"), HHMM("0", "8", "3", "0"),
      HHMM("0", "9", "0", "0"), HHMM("0", "9", "3", "0")>>

RUSH_HOUR_EVENING ==
    <<HHMM("1", "7", "3", "0"), HHMM("1", "8", "0", "0"), HHMM("1", "8", "3", "0"),
      HHMM("1", "9", "0", "0"), HHMM("1", "9", "3", "0")>>

\* A mean is a fraction num / den with den > 0, or NaN.
Rat(p, q) == [na |-> FALSE, num |-> p, den |-> q]

NaNRat == [na |-> TRUE, num |-> 0, den |-> 1]

RatLess(a, b) == a.num * b.den < b.num * a.den

RatEq(a, b) == a.num * b.den = b.num * a.den

\* the crowding column of rows as a Series of numbers
crowding_of(rows) ==
    [i \in 1..Len(rows) |->
        IF rows[i].crowding.na THEN NaNRat
        ELSE Rat(rows[i].crowding.v, rows[i].crowding.d)]

RECURSIVE SumRats(_)
SumRats(s) ==
    IF s = <<>> THEN Rat(0, 1)
    ELSE LET h == Head(s)
             t == SumRats(Tail(s))
         IN IF h.na THEN t ELSE Rat(h.num * t.den + t.num * h.den, h.den * t.den)

\* Series.mean(): the mean of the values that are not NaN, NaN if there is none
mean(s) ==
    LET n == Cardinality({i \in 1..Len(s) : ~s[i].na})
        t == SumRats(s)
    IN IF n = 0 THEN NaNRat ELSE Rat(t.num, t.den * n)

\* (mutant) idxmax giving the last position of the greatest value
idxmax_Last(s) ==
    LET have == {i \in 1..Len(s) : ~s[i].na}
    IN IF have = {} THEN 0
       ELSE CHOOSE i \in have :
                /\ \A j \in have : ~RatLess(s[i], s[j])
                /\ \A j \in have : j > i => RatLess(s[j], s[i])

\* Series.idxmax(): the first position of the greatest value that is not
\* NaN; 0 when every value is NaN
idxmax(s) ==
    LET have == {i \in 1..Len(s) : ~s[i].na}
    IN IF have = {} THEN 0
       ELSE CHOOSE i \in have :
                /\ \A j \in have : ~RatLess(s[i], s[j])
                /\ \A j \in have : j < i => RatLess(s[j], s[i])

\* x < y for two tuples of strings of one length
KeyLess(x, y) ==
    \E k \in 1..Len(x) :
        /\ \A i \in 1..(k - 1) : x[i] = y[i]
        /\ StrLess(x[k], y[k])

RECURSIVE SortedKeys(_)
SortedKeys(S) ==
    IF S = {} THEN <<>>
    ELSE LET m == CHOOSE x \in S : \A y \in S \ {x} : KeyLess(x, y)
         IN <<m>> \o SortedKeys(S \ {m})

\* the values of row r in the columns by
KeyOf(r, by) == [k \in 1..Len(by) |-> r[by[k]]]

\* rows.groupby(by): the groups in ascending order of their keys, each with
\* its rows in the order of the frame
groupby(rows, by) ==
    LET keys == SortedKeys({KeyOf(rows[i], by) : i \in 1..Len(rows)})
    IN [g \in 1..Len(keys) |->
           [key |-> keys[g], group |-> SelectSeq(rows, LAMBDA r : KeyOf(r, by) = keys[g])]]

Orders(n) == {p \in [1..n -> 1..n] : \A i, j \in 1..n : p[i] = p[j] => i = j}

\* (mutant) sort_values(ascending=True) of a Series of numbers
sort_values_descending_Ascending(s) ==
    {p \in Orders(Len(s)) :
        \A i, j \in 1..Len(s) : i < j =>
            /\ s[p[i]].na => s[p[j]].na /\ p[i] < p[j]
            /\ ~s[p[i]].na /\ ~s[p[j]].na => ~RatLess(s[p[j]], s[p[i]])}

\* sort_values(ascending=False) of a Series of numbers: the orders the sort
\* can give.  Greater values come first, NaN last in the order of the frame;
\* equal values come in an order the sort algorithm picks.
sort_values_descending(s) ==
    {p \in Orders(Len(s)) :
        \A i, j \in 1..Len(s) : i < j =>
            /\ s[p[i]].na => s[p[j]].na /\ p[i] < p[j]
            /\ ~s[p[i]].na /\ ~s[p[j]].na => ~RatLess(s[p[i]], s[p[j]])}

\* sort_values() of a Series of strings: smaller strings first, equal
\* strings in an order the sort algorithm picks
sort_values_ascending(s) ==
    {p \in Orders(Len(s)) :
        \A i, j \in 1..Len(s) : i < j => ~StrLess(s[p[j]], s[p[i]])}

\* lines 50-54, 112-116: the rows of the selection
Selected(d, day, line, direction) ==
    SelectSeq(d, LAMBDA r : r.day_type = day /\ r.line = line /\ r.direction = direction)

\* (mutant) isin keeping every row
isin_EveryRow(rows, labels) == rows

\* lines 137-138, 176, 232: the rows whose time_label is one of labels
isin(rows, labels) == SelectSeq(rows, LAMBDA r : r.time_label \in Range(labels))

\* the label idxmax gives for a Series that is all NaN
NaNLabel == <<"NaN">>

KpiNone ==
    [raised |-> "", none |-> TRUE, avg_crowding |-> NaNRat, max_station |-> <<>>,
     max_crowding |-> NaNRat, peak_time |-> <<>>, total_stations |-> 0,
     morning_avg |-> NaNRat, evening_avg |-> NaNRat]

KpiRaised(e) == [KpiNone EXCEPT !.raised = e, !.none = FALSE]

\* lines 121-151 of calculate_kpi
KpiDict(filtered) ==
    LET by_station == groupby(filtered, <<"station_name">>)
        station_avg == [g \in 1..Len(by_station) |-> mean(crowding_of(by_station[g].group))]
        by_time == groupby(filtered, <<"time_label">>)
        time_avg == [g \in 1..Len(by_time) |-> mean(crowding_of(by_time[g].group))]
        ms == idxmax(station_avg)
        pt == idxmax(time_avg)
        morning_data == isin(filtered, RUSH_HOUR_MORNING)
        evening_data == isin(filtered, RUSH_HOUR_EVENING)
    IN [raised |-> "", none |-> FALSE,
        avg_crowding |-> mean(crowding_of(filtered)),
        max_station |-> IF ms = 0 THEN NaNLabel ELSE by_station[ms].key[1],
        max_crowding |-> IF ms = 0 THEN NaNRat ELSE station_avg[ms],
        peak_time |-> IF pt = 0 THEN NaNLabel ELSE by_time[pt].key[1],
        total_stations |-> Len(by_station),
        morning_avg |-> IF morning_data # <<>> THEN mean(crowding_of(morning_data))
                        ELSE Rat(0, 1),
        evening_avg |-> IF evening_data # <<>> THEN mean(crowding_of(evening_data))
                        ELSE Rat(0, 1)]

\* what lines 121-151 can give: idxmax of a Series that is all NaN returns
\* NaN in one pandas and raises ValueError in another
KpiOutcomes(filtered) ==
    IF \A i \in 1..Len(filtered) : filtered[i].crowding.na
    THEN {KpiDict(filtered), KpiRaised("ValueError")}
    ELSE {KpiDict(filtered)}

\* (mutant) calculate_kpi without the return of lines 118-119
calculate_kpi_NoEmptyCheck(d, day, line, direction) ==
    KpiOutcomes(Selected(d, day, line, direction))

\* calculate_kpi(df, selected_day, selected_line, selected_direction)
calculate_kpi(d, day, line, direction) ==
    LET filtered == Selected(d, day, line, direction)
    IN IF filtered = <<>> THEN {KpiNone} ELSE KpiOutcomes(filtered)

\* pd.DataFrame()
EmptyFrame == [raised |-> "", columns |-> <<>>, rows |-> <<>>]

FrameRaised(e) == [raised |-> e, columns |-> <<>>, rows |-> <<>>]

\* lines 183-196, 239-250: one entry per group; peak_time is the label of the
\* first row of the group holding its greatest crowding, and the group's
\* .loc raises KeyError when idxmax found no value
grouped_data(rush_df, by) ==
    LET groups == groupby(rush_df, by)
    IN [g \in 1..Len(groups) |->
           LET s == crowding_of(groups[g].group)
               peak_idx == idxmax(s)
           IN [key |-> groups[g].key,
               avg_crowding |-> mean(s),
               peak_idx |-> peak_idx,
               peak_time |-> IF peak_idx = 0 THEN NaNLabel
                             ELSE groups[g].group[peak_idx].time_label]]

\* lines 190-196, 204, 246-250, 258: the row of entry e of the groups by,
\* holding the rank i
ranking_row(e, i, by) ==
    [c \in {"rank", "avg_crowding", "peak_time"} \cup Range(by) |->
        CASE c = "rank" -> i
          [] c = "avg_crowding" -> e.avg_crowding
          [] c = "peak_time" -> e.peak_time
          [] OTHER -> e.key[CHOOSE k \in 1..Len(by) : by[k] = c]]

\* lines 198-206, 252-260: the frames sort_values, head and the rank column
\* can give for the entries of the groups by
ranking_df(entries, top_n, by) ==
    \* idxmax raises ValueError in one pandas and returns NaN in another,
    \* where .loc then raises KeyError
    IF \E g \in 1..Len(entries) : entries[g].peak_idx = 0
    THEN {FrameRaised("KeyError"), FrameRaised("ValueError")}
    ELSE {[raised |-> "",
           columns |-> <<"rank">> \o by \o <<"avg_crowding", "peak_time">>,
           rows |-> [i \in 1..(IF top_n < Len(entries) THEN top_n ELSE Len(entries)) |->
                        ranking_row(entries[p[i]], i, by)]] :
            p \in sort_values_descending([g \in 1..Len(entries) |-> entries[g].avg_crowding])}

\* calculate_rush_hour_ranking(df, selected_day, rush_hour_type, top_n)
calculate_rush_hour_ranking(d, day, rush_hour_type, top_n) ==
    LET of_day == SelectSeq(d, LAMBDA r : r.day_type = day)
        rush_df == IF rush_hour_type = "all_day" THEN of_day
                   ELSE isin(of_day, IF rush_hour_type = "morning" THEN RUSH_HOUR_MORNING
                                     ELSE RUSH_HOUR_EVENING)
    IN IF rush_df = <<>> THEN {EmptyFrame}
       ELSE ranking_df(grouped_data(rush_df, <<"station_name", "line", "direction">>),
                       top_n, <<"station_name", "line", "direction">>)

\* calculate_rush_hour_ranking_by_line(df, selected_day, selected_line,
\* selected_direction, rush_hour_type, top_n)
calculate_rush_hour_ranking_by_line(d, day, line, direction, rush_hour_type, top_n) ==
    LET rush_df == isin(Selected(d, day, line, direction),
                        IF rush_hour_type = "morning" THEN RUSH_HOUR_MORNING
                        ELSE RUSH_HOUR_EVENING)
    IN IF rush_df = <<>> THEN {EmptyFrame}
       ELSE ranking_df(grouped_data(rush_df, <<"station_name">>), top_n, <<"station_name">>)

\* lines 57-62: pivot_table(index station_name, columns time_label, values
\* crowding, aggfunc mean).  A (station, label) pair whose mean is NaN is
\* dropped, so the index holds the stations and the columns the labels that
\* keep a value, both in ascending order; a cell with no value is NaN.
pivot_table(filtered) ==
    LET cells == groupby(filtered, <<"station_name", "time_label">>)
        kept == {g \in 1..Len(cells) : ~mean(crowding_of(cells[g].group)).na}
        index == SortedKeys({<<cells[g].key[1]>> : g \in kept})
        columns == SortedKeys({<<cells[g].key[2]>> : g \in kept})
    IN [index |-> [i \in 1..Len(index) |-> index[i][1]],
        columns |-> [j \in 1..Len(columns) |-> columns[j][1]],
        values |-> [i \in 1..Len(index) |-> [j \in 1..Len(columns) |->
                       IF \E g \in kept : cells[g].key = <<index[i][1], columns[j][1]>>
                       THEN mean(crowding_of(cells[CHOOSE g \in kept :
                                cells[g].key = <<index[i][1], columns[j][1]>>].group))
                       ELSE NaNRat]]]

\* line 74: the (station_name, station_code) pairs of the rows, each once, in
\* the order of their first row
RECURSIVE drop_duplicates(_)
drop_duplicates(s) ==
    IF s = <<>> THEN <<>>
    ELSE LET init == drop_duplicates(SubSeq(s, 1, Len(s) - 1))
             last == s[Len(s)]
         IN IF last \in Range(init) THEN init ELSE Append(init, last)

\* lines 65-78: the station orders the sort mode can give
station_orders(filtered, pivot_df, sort_by) ==
    IF sort_by = "avg_desc"
    THEN {[i \in 1..Len(p) |-> pivot_df.index[p[i]]] :
            p \in sort_values_descending(
                     [i \in 1..Len(pivot_df.index) |-> mean(pivot_df.values[i])])}
    ELSE IF sort_by = "code"
    THEN LET station_codes ==
                 drop_duplicates([i \in 1..Len(filtered) |->
                                     <<filtered[i].station_name, filtered[i].station_code>>])
         IN {[i \in 1..Len(p) |-> station_codes[p[i]][1]] :
                p \in sort_values_ascending(
                         [i \in 1..Len(station_codes) |-> station_codes[i][2]])}
    \* "name": sorted() of an index that pivot_table left in ascending order
    ELSE {pivot_df.index}

\* line 80: pivot_df.reindex(station_order); a station the pivot does not
\* hold gets a row of NaN
reindex(pivot_df, station_order) ==
    [index |-> station_order,
     columns |-> pivot_df.columns,
     values |-> [i \in 1..Len(station_order) |->
                   IF \E k \in 1..Len(pivot_df.index) : pivot_df.index[k] = station_order[i]
                   THEN pivot_df.values[CHOOSE k \in 1..Len(pivot_df.index) :
                                           pivot_df.index[k] = station_order[i]]
                   ELSE [j \in 1..Len(pivot_df.columns) |-> NaNRat]]]

\* prepare_heatmap_data(df, selected_day, selected_line, selected_direction,
\* sort_by)
prepare_heatmap_data(d, day, line, direction, sort_by) ==
    LET filtered == Selected(d, day, line, direction)
        pivot_df == pivot_table(filtered)
    IN {[raised |-> "", pivot_df |-> reindex(pivot_df, station_order),
         station_order |-> station_order] :
          station_order \in station_orders(filtered, pivot_df, sort_by)}

(***************************************************************************)
(* Tidy tables the dashboard loads: the output of to_tidy_long for raw     *)
(* tables of at most MaxAggRows rows, no two of one identity.              *)
(***************************************************************************)
T_1800 == <<"1", "8", "si", "0", "0", "bun">>

AggHeaders ==
    {base_cols \o <<T_0730, T_0800>>, base_cols \o <<T_0730, T_1800>>,
     base_cols \o <<T_2330, T_0030>>}

AggIdentities ==
    << <<Text(Str_pyeongil), Text(Str_2hoseon), Num(222), Text(Str_gangnam), Text(Str_naeseon)>>,
       <<Text(Str_pyeongil), Text(Str_2hoseon), Num(1000), Text(Str_yeoksam), Text(Str_naeseon)>>,
       <<Text(Str_pyeongil), Text(Str_2hoseon), Num(223), Text(Str_gangnam), Text(Str_naeseon)>>,
       <<Text(Str_pyeongil), Text(Str_2hoseon), Num(222), Text(Str_gangnam), Text(Str_oeseon)>> >>

AggCells ==
    {<<Num(10), Num(20)>>, <<Num(20), Num(10)>>, <<Null, Null>>, <<Num(30), Null>>}

\* the raw table of header h holding one row for each identity of who, in
\* the order of AggIdentities, with the cells cells[k] for the k-th identity
AggTable(h, who, cells) ==
    LET ks == SelectSeq([k \in 1..Len(AggIdentities) |-> k], LAMBDA k : k \in who)
    IN [cols |-> h,
        rows |-> [r \in 1..Len(ks) |-> RawRow(h, AggIdentities[ks[r]], cells[ks[r]])]]

IsAggTable(t) ==
    \E h \in AggHeaders :
        \E who \in {w \in SUBSET (1..Len(AggIdentities)) : Cardinality(w) <= MaxAggRows} :
            \E cells \in [who -> AggCells] :
                t = AggTable(h, who, cells)

Selections ==
    [day : {Str_pyeongil, Str_toyoil}, line : {Str_2hoseon},
     direction : {Str_naeseon, Str_oeseon}]

SortModes == {"avg_desc", "name", "code", "name_asc"}

RushHourTypes == {"morning", "evening", "all_day"}

NoCall == [name |-> "", rush_hour_type |-> "", top_n |-> 0, sort_by |-> ""]

AggInit ==
    /\ pc = "dashboard"
    /\ \E h \in AggHeaders :
         \E who \in {w \in SUBSET (1..Len(AggIdentities)) : Cardinality(w) <= MaxAggRows} :
           \E cells \in [who -> AggCells] :
               df = to_tidy_long(AggTable(h, who, cells)).tidy
    /\ selection \in Selections
    /\ op = NoCall
    /\ result = <<>>
    /\ raw = NoTable
    /\ tidy = <<>>
    /\ presort_index = <<>>
    /\ err = ""
    /\ report = NoReport
    /\ passed = FALSE
    /\ csv_file = NoTable
    /\ attempt = 0
    /\ tried = <<>>
    /\ files = NoFiles
    /\ files0 = NoFiles
    /\ col = <<>>
    /\ is_time = FALSE
    /\ label = NoLabel

Call(name, rush_hour_type, top_n, sort_by, outcomes) ==
    /\ pc = "dashboard"
    /\ op' = [name |-> name, rush_hour_type |-> rush_hour_type, top_n |-> top_n,
              sort_by |-> sort_by]
    /\ result' \in outcomes
    /\ pc' = "called"
    /\ UNCHANGED <<df, selection, time_vars, tidy_vars, main_vars>>

CalculateKpi ==
    Call("calculate_kpi", "", 0, "",
         calculate_kpi(df, selection.day, selection.line, selection.direction))

CalculateRushHourRanking ==
    \E rush_hour_type \in RushHourTypes, top_n \in 1..MaxTopN :
        Call("calculate_rush_hour_ranking", rush_hour_type, top_n, "",
             calculate_rush_hour_ranking(df, selection.day, rush_hour_type, top_n))

CalculateRushHourRankingByLine ==
    \E rush_hour_type \in {"morning", "evening"}, top_n \in 1..MaxTopN :
        Call("calculate_rush_hour_ranking_by_line", rush_hour_type, top_n, "",
             calculate_rush_hour_ranking_by_line(df, selection.day, selection.line,
                                                 selection.direction, rush_hour_type, top_n))

PrepareHeatmapData ==
    \E sort_by \in SortModes :
        Call("prepare_heatmap_data", "", 0, sort_by,
             prepare_heatmap_data(df, selection.day, selection.line, selection.direction,
                                  sort_by))

AggNext ==
    \/ CalculateKpi
    \/ CalculateRushHourRanking
    \/ CalculateRushHourRankingByLine
    \/ PrepareHeatmapData

AggSpec == AggInit /\ [][AggNext]_vars

(***************************************************************************)
(* The normaliser as to_tidy_long applies it to one column name: the       *)
(* detection of line 47, then the labelling of line 55 for a detected      *)
(* column.                                                                 *)
(***************************************************************************)
TimeInit ==
    /\ pc = "detect"
    /\ col \in ColumnNames
    /\ is_time = FALSE
    /\ label = NoLabel
    /\ raw = [cols |-> <<>>, rows |-> <<>>]
    /\ tidy = <<>>
    /\ presort_index = <<>>
    /\ err = ""
    /\ report = NoReport
    /\ passed = FALSE
    /\ MainIdle

Detect ==
    /\ pc = "detect"
    /\ is_time' = TIME_COL_RE(col)
    /\ pc' = IF TIME_COL_RE(col) THEN "label" ELSE "ignored"
    /\ UNCHANGED <<col, label, tidy_vars, main_vars, agg_vars>>

Label ==
    /\ pc = "label"
    /\ label' = timecol_to_hhmm(Strip(col))
    /\ pc' = "labelled"
    /\ UNCHANGED <<col, is_time, tidy_vars, main_vars, agg_vars>>

TimeNext == Detect \/ Label

TimeSpec == TimeInit /\ [][TimeNext]_vars

(***************************************************************************)
(* C2.  Reading of a column name used by the claims, independent of the    *)
(* patterns above: the name without its blanks, the digits written before  *)
(* "si" and the digits written between "si" and "bun".                     *)
(***************************************************************************)
Unblanked(c) == SelectSeq(c, LAMBDA ch : ch # " ")

BlanksOnlyAround(c) ==
    \E a \in 0..Len(c) :
        /\ a + Len(Unblanked(c)) <= Len(c)
        /\ SubSeq(c, a + 1, a + Len(Unblanked(c))) = Unblanked(c)

SiAt(c) == CHOOSE p \in 1..Len(Unblanked(c)) : Unblanked(c)[p] = "si"

WrittenHour(c) == SubSeq(Unblanked(c), 1, SiAt(c) - 1)

WrittenMinute(c) == SubSeq(Unblanked(c), SiAt(c) + 1, Len(Unblanked(c)) - 1)

AllDigits(s) == \A i \in 1..Len(s) : IsDigit(s[i])

\* A localized time-column name whose minute is written with a number of
\* digits in W: blanks, one or two digits, "si", the minute, "bun", blanks.
LocalizedTimeName(c, W) ==
    /\ BlanksOnlyAround(c)
    /\ Len(Unblanked(c)) >= 4
    /\ \E p \in 1..Len(Unblanked(c)) : Unblanked(c)[p] = "si"
    /\ Unblanked(c)[Len(Unblanked(c))] = "bun"
    /\ Len(WrittenHour(c)) \in 1..2
    /\ Len(WrittenMinute(c)) \in W
    /\ AllDigits(WrittenHour(c))
    /\ AllDigits(WrittenMinute(c))

\* The label is HH:MM, two ASCII digits each side, and reads back as the
\* hour and the minute written in the name.
CanonicalLabelOf(c, l) ==
    /\ Len(l) = 5
    /\ l[3] = ":"
    /\ \A i \in {1, 2, 4, 5} : l[i] \in AsciiDigits
    /\ IntOfDigits(SubSeq(l, 1, 2)) = IntOfDigits(WrittenHour(c))
    /\ IntOfDigits(SubSeq(l, 4, 5)) = IntOfDigits(WrittenMinute(c))

Accepted(c, W) ==
    LocalizedTimeName(c, W) =>
        /\ pc # "ignored"
        /\ pc \in {"label", "labelled"} => is_time
        /\ pc = "labelled" => label.ok /\ CanonicalLabelOf(c, label.label)

\* C2 as stated: every localized time-column name, the minute written with
\* one digit ("0si0bun") or with two ("7si30bun", "23si59bun"), is accepted
\* as a time column and labelled HH:MM with the integers written in it.
C2_AsStated == Accepted(col, {1, 2})

\* C2 (amended): every name made of one or two digits, "si", exactly two
\* digits and "bun", blanks allowed around it, is accepted as a time column
\* and labelled HH:MM, zero-padded, with the integers written in it; a name
\* whose minute is written with one digit, such as "0si0bun", is not
\* detected as a time column.
C2_TimeLabelRoundTrip ==
    /\ Accepted(col, {2})
    /\ LocalizedTimeName(col, {1}) => pc \in {"detect", "ignored"}

C2_Witness ==
    /\ pc = "labelled"
    /\ col = <<"2", "3", "si", "5", "9", "bun">>
    /\ label = [ok |-> TRUE, label |-> <<"2", "3", ":", "5", "9">>]
(***************************************************************************)
(* Claims about to_tidy_long, quality_report and print_report (TidySpec).  *)
(***************************************************************************)
Transformed == pc \in {"validate", "print", "save_csv"}

Reported == pc \in {"print", "save_csv"}

\* The raw table of the scenario: one row of station 222, the first time
\* column named "7si30bun" holding 150, the second, named second, holding 180.
ScenarioTable(second) ==
    [cols |-> base_cols \o <<T_0730, second>>,
     rows |-> <<RawRow(base_cols \o <<T_0730, second>>, Gangnam222, <<Num(150), Num(180)>>)>>]

ScenarioRow(lbl, ord, value) ==
    [day_type |-> Str_pyeongil, line |-> Str_2hoseon,
     station_code |-> <<"2", "2", "2">>, station_name |-> Str_gangnam,
     direction |-> Str_naeseon,
     time_label |-> lbl, time_order |-> ord, crowding |-> Real(value)]

ScenarioTidy ==
    << ScenarioRow(<<"0", "7", ":", "3", "0">>, 0, 150),
       ScenarioRow(<<"0", "8", ":", "0", "0">>, 1, 180) >>

\* C1 as stated: with the time columns "7si30bun" = 150 and "8si0bun" = 180,
\* to_tidy_long returns the two tidy rows 07:30/0/150 and 08:00/1/180.
C1_AsStated ==
    (pc # "transform" /\ raw = ScenarioTable(T_0800_short)) =>
        (err = "" /\ tidy = ScenarioTidy)

\* C1 (amended): with the time columns "7si30bun" = 150 and "8si00bun" = 180
\* to_tidy_long returns exactly the two tidy rows 07:30/0/150 and
\* 08:00/1/180 carrying the row's identity; with the second column named
\* "8si0bun" it returns the 07:30 row alone.
C1_Scenario ==
    /\ (pc # "transform" /\ raw = ScenarioTable(T_0800)) =>
            (err = "" /\ tidy = ScenarioTidy)
    /\ (pc # "transform" /\ raw = ScenarioTable(T_0800_short)) =>
            (err = "" /\ tidy = <<ScenarioTidy[1]>>)

C1_Witness ==
    /\ pc = "validate"
    /\ raw = ScenarioTable(T_0800)
    /\ Len(tidy) = 2
    /\ tidy[2].crowding = Real(180)

\* The positions of the raw columns that are time columns, and the
\* zero-based rank of such a position counted from the left.
DetectedPositions == {i \in 1..Len(raw.cols) : TIME_COL_RE(raw.cols[i])}

RankFromLeft(i) == Cardinality({j \in DetectedPositions : j < i})

\* C3: the time_order values of the tidy table are 0..N-1 for N detected
\* time columns, the i-th detected column from the left carrying i (counted
\* from zero) on one tidy row per raw row, whatever the labels are.
C3_TimeOrderFollowsColumns ==
    (Transformed /\ err = "") =>
        /\ \A x \in 1..Len(tidy) :
               tidy[x].time_order \in 0..(Cardinality(DetectedPositions) - 1)
        /\ \A i \in DetectedPositions :
               /\ Cardinality({x \in 1..Len(tidy) : tidy[x].time_order = RankFromLeft(i)})
                      = Len(raw.rows)
               /\ \A r \in 1..Len(raw.rows) :
                      \E x \in 1..Len(tidy) :
                          /\ tidy[x].time_order = RankFromLeft(i)
                          /\ tidy[x].time_label = timecol_to_hhmm(raw.cols[i]).label
                          /\ tidy[x].crowding =
                                 CleanCell(raw.rows[r][i], dtype(ColumnCells(raw, i)))
                          /\ tidy[x].station_name =
                                 raw.rows[r][ColumnPosition(raw.cols, COL_NAME)].s

\* a later column whose label sorts before an earlier column's, with the
\* identity columns between the two
C3_Witness ==
    /\ Transformed
    /\ raw.cols = <<T_2330>> \o base_cols \o <<T_0030>>
    /\ Len(tidy) = 2
    /\ tidy[1].time_label = <<"2", "3", ":", "3", "0">> /\ tidy[1].time_order = 0
    /\ tidy[2].time_label = <<"0", "0", ":", "3", "0">> /\ tidy[2].time_order = 1

\* No two raw rows describe the same (day type, line, station code, station
\* name, direction).
IdentityOfRow(r) == [k \in 1..5 |-> raw.rows[r][ColumnPosition(raw.cols, base_cols[k])]]

NoDuplicateRawRows ==
    \A r1, r2 \in 1..Len(raw.rows) : r1 # r2 => IdentityOfRow(r1) # IdentityOfRow(r2)

\* C5: for a raw table without duplicate raw rows that passes the schema
\* checks, quality_report counts no duplicate key in the tidy table.
C5_NoDuplicateKeys ==
    (Reported /\ NoDuplicateRawRows) => report.duplicate_key_rows = 0

\* x <= y for the tuples (day_type, line, station_code, direction, time_order)
\* of two tidy rows, and x = y
TupleLeq(x, y) ==
    \/ StrLess(x.day_type, y.day_type)
    \/ /\ x.day_type = y.day_type
       /\ \/ StrLess(x.line, y.line)
          \/ /\ x.line = y.line
             /\ \/ StrLess(x.station_code, y.station_code)
                \/ /\ x.station_code = y.station_code
                   /\ \/ StrLess(x.direction, y.direction)
                      \/ /\ x.direction = y.direction
                         /\ x.time_order <= y.time_order

TupleEq(x, y) == TupleLeq(x, y) /\ TupleLeq(y, x)

\* C8: the tidy table is the melted frame in ascending order of (day_type,
\* line, station_code, direction, time_order); rows of equal tuples keep the
\* order they had before the sort; the rows are numbered anew, 1..Len here.
C8_SortedStable ==
    (Transformed /\ err = "") =>
        /\ Len(presort_index) = Len(tidy)
        /\ Len(tidy) = Len(Melted(raw))
        /\ Range(presort_index) = 1..Len(tidy)
        /\ \A i \in 1..Len(tidy) : tidy[i] = Melted(raw)[presort_index[i]]
        /\ \A i \in 1..(Len(tidy) - 1) :
               /\ TupleLeq(tidy[i], tidy[i + 1])
               /\ TupleEq(tidy[i], tidy[i + 1]) => presort_index[i] < presort_index[i + 1]

\* the sort moved a row, and two different rows of equal tuples are adjacent
C8_Witness ==
    /\ Transformed
    /\ \E i \in 1..(Len(tidy) - 1) : presort_index[i] > presort_index[i + 1]
    /\ \E i \in 1..(Len(tidy) - 1) :
           TupleEq(tidy[i], tidy[i + 1]) /\ tidy[i].station_name # tidy[i + 1].station_name

\* A text of a decimal number without sign and exponent: digits, possibly
\* with one point among them.
IsDecimal(m) ==
    /\ \E i \in 1..Len(m) : m[i] \in AsciiDigits
    /\ \A i \in 1..Len(m) : m[i] \in AsciiDigits \cup {"."}
    /\ Cardinality({i \in 1..Len(m) : m[i] = "."}) <= 1

\* its digits, and how many of them stand after the point
DigitsOf(m) == SelectSeq(m, LAMBDA ch : ch # ".")

DecimalsOf(m) == Cardinality({i \in 1..Len(m) : \E j \in 1..(i - 1) : m[j] = "."})

WithoutSign(u) == IF u # <<>> /\ u[1] \in {"+", "-"} THEN Tail(u) ELSE u

\* A text of a whole number, with or without a sign, and the number.
IsWhole(x) ==
    /\ WithoutSign(x) # <<>>
    /\ \A i \in 1..Len(WithoutSign(x)) : WithoutSign(x)[i] \in AsciiDigits

WholeValue(x) ==
    IF x[1] = "-" THEN -IntOfDigits(WithoutSign(x)) ELSE IntOfDigits(WithoutSign(x))

\* where the exponent mark of the text stands, 0 when it has none
ExponentMark(u) ==
    IF \E i \in 1..Len(u) : u[i] \in {"e", "E"}
    THEN CHOOSE i \in 1..Len(u) :
             /\ u[i] \in {"e", "E"}
             /\ \A j \in 1..(i - 1) : u[j] \notin {"e", "E"}
    ELSE 0

\* The text is a number as written in decimal notation: an optional sign,
\* a decimal, and possibly an exponent of ten.
IsNumberText(u) ==
    LET b == WithoutSign(u)
        e == ExponentMark(b)
    IN IF e = 0 THEN IsDecimal(b)
       ELSE IsDecimal(SubSeq(b, 1, e - 1)) /\ e < Len(b) /\ IsWhole(SubSeq(b, e + 1, Len(b)))

\* the number a number text stands for
NumberTextValue(u) ==
    LET b == WithoutSign(u)
        e == ExponentMark(b)
        m == IF e = 0 THEN b ELSE SubSeq(b, 1, e - 1)
        scale == (IF e = 0 THEN 0 ELSE WholeValue(SubSeq(b, e + 1, Len(b)))) - DecimalsOf(m)
        digits == IntOfDigits(DigitsOf(m)) * (IF u[1] = "-" THEN -1 ELSE 1)
    IN IF scale >= 0 THEN Quotient(digits * Pow10(scale), 1)
       ELSE Quotient(digits, Pow10(-scale))

\* A raw cell that holds a negative number: a negative numeric cell, or a
\* text that is a number below zero, with blanks around.
HoldsNegative(cell) ==
    \/ cell.t = "num" /\ cell.n < 0
    \/ /\ cell.t = "str"
       /\ BlanksOnlyAround(cell.s)
       /\ IsNumberText(Unblanked(cell.s))
       /\ NumberTextValue(Unblanked(cell.s)).v < 0

NegativeSourceCells ==
    {<<r, i>> \in (1..Len(raw.rows)) \X DetectedPositions : HoldsNegative(raw.rows[r][i])}

\* C9: negative_crowding_count is the number of raw time-column cells that
\* hold a negative number, and each of them is a negative crowding value of
\* the tidy table.
C9_NegativeCount ==
    Reported =>
        /\ report.negative_crowding_count = Cardinality(NegativeSourceCells)
        /\ Cardinality({x \in 1..Len(tidy) : ~tidy[x].crowding.na /\ tidy[x].crowding.v < 0})
               = Cardinality(NegativeSourceCells)

C9_Witness ==
    /\ Reported
    /\ report.negative_crowding_count = 2
    /\ report.crowding_nan_count = 1
    /\ Len(tidy) = 4

\* C10: the verdict is true exactly when duplicate_key_rows and
\* negative_crowding_count are both zero, whatever the over-200 count, the
\* missing count and the all-zero group count are.
C10_Verdict ==
    pc = "save_csv" =>
        /\ passed <=> (report.duplicate_key_rows = 0 /\ report.negative_crowding_count = 0)
        /\ \A o, m, z \in 0..3 :
               completion_passed([report EXCEPT !.crowding_over_200_count = o,
                                                !.crowding_nan_count = m,
                                                !.all_time_zero_station_direction_rows = z])
                   = passed

C10_Witness ==
    /\ pc = "save_csv"
    /\ passed
    /\ report.crowding_over_200_count > 0
    /\ report.crowding_nan_count > 0
    /\ report.all_time_zero_station_direction_rows > 0
(***************************************************************************)
(* Claims about main() (MainSpec).                                         *)
(***************************************************************************)
\* C4: when the run has failed, at whatever step, every output file is as
\* it was when the run began.
C4_FailedRunLeavesFiles ==
    pc = "failed" =>
        \A f \in {"csv", "parquet", "report"} : files0[f] = "old" => files[f] = "old"

(***************************************************************************)
(* Claims about the dashboard's aggregations (AggSpec).                    *)
(***************************************************************************)
RankingReturned ==
    /\ pc = "called"
    /\ op.name = "calculate_rush_hour_ranking"
    /\ result.raised = ""

InWindow(r) ==
    \/ op.rush_hour_type = "all_day"
    \/ op.rush_hour_type = "morning" /\ r.time_label \in Range(RUSH_HOUR_MORNING)
    \/ op.rush_hour_type = "evening" /\ r.time_label \in Range(RUSH_HOUR_EVENING)

\* the rows of the loaded table the ranking called is about
RankedRows == {i \in 1..Len(df) : df[i].day_type = selection.day /\ InWindow(df[i])}

GroupKey(r) == <<r.station_name, r.line, r.direction>>

NumberOfGroups == Cardinality({GroupKey(df[i]) : i \in RankedRows})

Min(a, b) == IF a < b THEN a ELSE b

\* C6: the ranking calculate_rush_hour_ranking returns is sorted by avg_crowding, never increasing, and
\* two neighbours of equal avg_crowding stand in the order in which the
\* groups are iterated (ascending group key); it holds min(top_n, number of
\* groups) entries, whose rank values are 1, 2, ..., len.
C6_RankingOrderWithTies ==
    RankingReturned =>
        /\ Len(result.rows) = Min(op.top_n, NumberOfGroups)
        /\ \A i \in 1..Len(result.rows) : result.rows[i].rank = i
        /\ \A i \in 1..(Len(result.rows) - 1) :
               /\ ~RatLess(result.rows[i].avg_crowding, result.rows[i + 1].avg_crowding)
               /\ RatEq(result.rows[i].avg_crowding, result.rows[i + 1].avg_crowding)
                      => KeyLess(GroupKey(result.rows[i]), GroupKey(result.rows[i + 1]))

\* the selection of the call matches no row of the loaded table
EmptySelection ==
    \A i \in 1..Len(df) :
        ~ /\ df[i].day_type = selection.day
          /\ op.name # "calculate_rush_hour_ranking" =>
                 df[i].line = selection.line /\ df[i].direction = selection.direction

EmptyHeatmap ==
    [raised |-> "",
     pivot_df |-> [index |-> <<>>, columns |-> <<>>, values |-> <<>>],
     station_order |-> <<>>]

\* C7: when the selection matches no row of the loaded table, calculate_kpi
\* returns None, both rankings return an empty frame, and
\* prepare_heatmap_data returns an empty pivot and an empty station order,
\* whatever the sort mode.
C7_EmptySelection ==
    pc = "called" /\ EmptySelection =>
        /\ op.name = "calculate_kpi" => result = KpiNone
        /\ op.name \in {"calculate_rush_hour_ranking", "calculate_rush_hour_ranking_by_line"}
               => result = EmptyFrame
        /\ op.name = "prepare_heatmap_data" => result = EmptyHeatmap

C7_Witness ==
    /\ pc = "called"
    /\ EmptySelection
    /\ df # <<>>
    /\ op.name = "calculate_kpi"
    /\ result = KpiNone

HeatmapReturned ==
    /\ pc = "called"
    /\ op.name = "prepare_heatmap_data"
    /\ result.raised = ""

\* the rows of the loaded table that the selection matches
SelectionRows ==
    {i \in 1..Len(df) :
        /\ df[i].day_type = selection.day
        /\ df[i].line = selection.line
        /\ df[i].direction = selection.direction}

\* the station_code of the first row of the selection that names station s
FirstSeenCode(s) ==
    df[CHOOSE i \in SelectionRows :
           /\ df[i].station_name = s
           /\ \A j \in SelectionRows : df[j].station_name = s => i <= j].station_code

\* C11: under the sort mode "code" the station order names every station of
\* the selection exactly once, in ascending order of the stations' first-seen
\* station_code, and the pivot has one row per listed station.
C11_CodeOrder ==
    HeatmapReturned /\ op.sort_by = "code" =>
        LET order == result.station_order
        IN /\ Range(order) = {df[i].station_name : i \in SelectionRows}
           /\ \A i, j \in 1..Len(order) : order[i] = order[j] => i = j
           /\ \A i, j \in 1..Len(order) :
                  i < j => ~StrLess(FirstSeenCode(order[j]), FirstSeenCode(order[i]))
           /\ result.pivot_df.index = order

(***************************************************************************)
(* Claims about read_raw_csv (MainSpec).                                   *)
(***************************************************************************)
EncodingOrder == <<"utf-8-sig", "cp949", "euc-kr">>

\* the place in EncodingOrder of the first encoding under which the file parses
FirstParsing ==
    CHOOSE k \in 1..3 :
        /\ EncodingOrder[k] \in csv_file.parses
        /\ \A j \in 1..(k - 1) : EncodingOrder[j] \notin csv_file.parses

TrimmedNames == [i \in 1..Len(csv_file.table.cols) |-> Strip(csv_file.table.cols[i])]

\* C12: the encodings are tried in the order utf-8-sig, cp949, euc-kr; the
\* read ends at the first encoding that parses, with that table and its
\* column names trimmed, and no later encoding is tried; it fails only when
\* all three have been tried and failed, with the error of the last attempt.
C12_EncodingOrder ==
    /\ \A i \in 1..Len(tried) : i <= 3 /\ tried[i] = EncodingOrder[i]
    /\ pc = "read" => \A i \in 1..Len(tried) : tried[i] \notin csv_file.parses
    /\ pc \notin {"read", "dashboard"} /\ csv_file.parses # {} =>
           /\ Len(tried) = FirstParsing
           /\ raw = [cols |-> TrimmedNames, rows |-> csv_file.table.rows]
    /\ pc \notin {"read", "dashboard"} /\ csv_file.parses = {} =>
           /\ pc = "failed"
           /\ tried = EncodingOrder
           /\ raw = NoTable
           /\ err = "read error: euc-kr"

C12_Witness ==
    /\ pc = "transform"
    /\ tried = <<"utf-8-sig", "cp949">>
    /\ "euc-kr" \in csv_file.parses
    /\ raw.cols # csv_file.table.cols
    /\ raw.cols = TrimmedNames

(***************************************************************************)
(* Further claims about to_tidy_long and quality_report (TidySpec).        *)
(***************************************************************************)
\* the place in the melted frame of raw row r under the detected column i
MeltPlace(r, i) == RankFromLeft(i) * Len(raw.rows) + r

\* C13: an accepted raw table gives (raw rows) x (detected time columns)
\* tidy rows, exactly one for each pair of a raw row and a detected time
\* column, whatever the cell holds.
C13_RowCount ==
    (Transformed /\ err = "") =>
        /\ Len(tidy) = Len(raw.rows) * Cardinality(DetectedPositions)
        /\ \A r \in 1..Len(raw.rows) :
               \A i \in DetectedPositions :
                   /\ Cardinality({x \in 1..Len(tidy) : presort_index[x] = MeltPlace(r, i)}) = 1
                   /\ \A x \in 1..Len(tidy) :
                          presort_index[x] = MeltPlace(r, i) =>
                              /\ tidy[x].time_order = RankFromLeft(i)
                              /\ tidy[x].crowding =
                                     CleanCell(raw.rows[r][i], dtype(ColumnCells(raw, i)))
                              /\ tidy[x].station_name =
                                     raw.rows[r][ColumnPosition(raw.cols, COL_NAME)].s

\* two raw rows under two time columns, with a null cell and a number
C13_Witness ==
    /\ Transformed
    /\ err = ""
    /\ Len(raw.rows) = 2
    /\ Cardinality(DetectedPositions) = 2
    /\ Len(tidy) = 4
    /\ \E x \in 1..4 : tidy[x].crowding.na
    /\ \E x \in 1..4 : ~tidy[x].crowding.na

IdentityColumnAbsent == \E k \in 1..5 : \A i \in 1..Len(raw.cols) : raw.cols[i] # base_cols[k]

\* C14: to_tidy_long raises its schema error and returns no table when an
\* identity column is absent or no column matches the time pattern, the
\* absent identity column being reported first when both hold; and the call
\* leaves the raw table it was given as it was, whether it fails or not.
C14_SchemaError ==
    /\ [](pc # "transform" /\ IdentityColumnAbsent =>
              pc = "failed" /\ err = "ValueError: missing columns" /\ tidy = <<>>)
    /\ [](pc # "transform" /\ ~IdentityColumnAbsent /\ DetectedPositions = {} =>
              pc = "failed" /\ err = "ValueError: no time columns" /\ tidy = <<>>)
    /\ [][pc = "transform" => raw' = raw]_vars

\* a table with neither all identity columns nor a time column
C14_Witness ==
    /\ pc = "failed"
    /\ raw.cols # <<>>
    /\ IdentityColumnAbsent
    /\ DetectedPositions = {}
    /\ err = "ValueError: missing columns"

(***************************************************************************)
(* Further claims about the dashboard's aggregations (AggSpec).            *)
(***************************************************************************)
\* C15: when the selection matches a row of the loaded table, calculate_kpi,
\* calculate_rush_hour_ranking and calculate_rush_hour_ranking_by_line
\* return a result and do not raise, also when crowding is null throughout
\* a group, the selection or the window.
C15_NeverRaises ==
    /\ pc = "called"
    /\ op.name \in {"calculate_kpi", "calculate_rush_hour_ranking",
                    "calculate_rush_hour_ranking_by_line"}
    /\ ~EmptySelection
    => result.raised = ""

\* the (day_type, line, station_code, station_name, direction) of tidy row x
GroupOfRow(x) ==
    <<tidy[x].day_type, tidy[x].line, tidy[x].station_code, tidy[x].station_name,
      tidy[x].direction>>

TidyGroups == {GroupOfRow(x) : x \in 1..Len(tidy)}

\* C16 as the specification words it: a group is counted exactly when each
\* of its crowding values that is not null is zero, so a group of zeros
\* mixed with nulls is counted.
C16_AsStated ==
    Reported =>
        report.all_time_zero_station_direction_rows =
            Cardinality({g \in TidyGroups :
                            \A x \in 1..Len(tidy) :
                                GroupOfRow(x) = g /\ ~tidy[x].crowding.na
                                    => tidy[x].crowding.v = 0})

\* C16: a group is counted exactly when none of its crowding values is null
\* and each of them is zero; a group of zeros mixed with nulls, and a group
\* of nulls only, is not counted.
C16_AllZeroGroups ==
    Reported =>
        report.all_time_zero_station_direction_rows =
            Cardinality({g \in TidyGroups :
                            \A x \in 1..Len(tidy) :
                                GroupOfRow(x) = g
                                    => ~tidy[x].crowding.na /\ tidy[x].crowding.v = 0})

\* a group holding a zero and a null, not counted, beside a group of zeros
C16_Witness ==
    /\ Reported
    /\ report.all_time_zero_station_direction_rows = 1
    /\ \E x, y \in 1..Len(tidy) :
           /\ GroupOfRow(x) = GroupOfRow(y)
           /\ tidy[x].crowding.na
           /\ ~tidy[y].crowding.na /\ tidy[y].crowding.v = 0

KpiPopulated ==
    /\ pc = "called"
    /\ op.name = "calculate_kpi"
    /\ result.raised = ""
    /\ ~result.none

\* the labels 07:30 .. 09:30 and 17:30 .. 19:30, half an hour apart
MorningWindow ==
    {<<"0", "7", ":", "3", "0">>, <<"0", "8", ":", "0", "0">>, <<"0", "8", ":", "3", "0">>,
     <<"0", "9", ":", "0", "0">>, <<"0", "9", ":", "3", "0">>}

EveningWindow ==
    {<<"1", "7", ":", "3", "0">>, <<"1", "8", ":", "0", "0">>, <<"1", "8", ":", "3", "0">>,
     <<"1", "9", ":", "0", "0">>, <<"1", "9", ":", "3", "0">>}

\* the rows of the selection whose label is in the window W
WindowRows(W) == {i \in SelectionRows : df[i].time_label \in W}

\* those of them that hold a crowding value
WindowValues(W) == {i \in WindowRows(W) : ~df[i].crowding.na}

\* the sum of the crowding of the rows S, as a fraction
RECURSIVE SumOfCrowding(_)
SumOfCrowding(S) ==
    IF S = {} THEN [num |-> 0, den |-> 1]
    ELSE LET i == CHOOSE i \in S : TRUE
             c == df[i].crowding
             t == SumOfCrowding(S \ {i})
         IN [num |-> c.v * t.den + t.num * c.d, den |-> c.d * t.den]

\* avg is the mean crowding of the rows S, which hold a value
IsMeanOf(avg, S) ==
    /\ ~avg.na
    /\ avg.num * Cardinality(S) * SumOfCrowding(S).den = SumOfCrowding(S).num * avg.den

IsZero(avg) == ~avg.na /\ avg.num = 0

\* C17 as the specification words it: morning_avg and evening_avg are the
\* mean crowding of the selection's rows in the window, and 0, not null,
\* when the window holds no crowding value of the selection.
C17_AsStated ==
    KpiPopulated =>
        /\ IF WindowValues(MorningWindow) = {} THEN IsZero(result.morning_avg)
           ELSE IsMeanOf(result.morning_avg, WindowValues(MorningWindow))
        /\ IF WindowValues(EveningWindow) = {} THEN IsZero(result.evening_avg)
           ELSE IsMeanOf(result.evening_avg, WindowValues(EveningWindow))

\* what a window's average is for the selection
WindowAverageIs(avg, W) ==
    IF WindowRows(W) = {} THEN IsZero(avg)
    ELSE IF WindowValues(W) = {} THEN avg.na
    ELSE IsMeanOf(avg, WindowValues(W))

\* C17: morning_avg and evening_avg are the mean crowding of the selection's
\* rows in the window; they are 0 when the selection has no row in the
\* window, and NaN when it has rows there and all their crowding is null.
C17_WindowAverages ==
    KpiPopulated =>
        /\ WindowAverageIs(result.morning_avg, MorningWindow)
        /\ WindowAverageIs(result.evening_avg, EveningWindow)

\* a selection with values in the morning window and, in the evening
\* window, rows that hold no value
C17_Witness ==
    /\ KpiPopulated
    /\ WindowValues(MorningWindow) # {}
    /\ IsMeanOf(result.morning_avg, WindowValues(MorningWindow))
    /\ WindowRows(EveningWindow) # {}
    /\ WindowValues(EveningWindow) = {}
    /\ result.evening_avg.na

\* the rows of the ranked part of the table in the group of ranking entry e
\* that hold a crowding value
EntryValues(e) ==
    {i \in RankedRows :
        /\ GroupKey(df[i]) = <<e.station_name, e.line, e.direction>>
        /\ ~df[i].crowding.na}

\* row i holds the greatest crowding of the rows S
HoldsMax(i, S) == i \in S /\ \A j \in S : ~RealLess(df[i].crowding, df[j].crowding)

\* C18: in every entry calculate_rush_hour_ranking returns, peak_time is the
\* label of a row of the entry's group inside the window that holds the
\* group's greatest crowding there, and of the first such row in the order
\* of the table when several rows hold it.
C18_PeakTime ==
    RankingReturned =>
        \A k \in 1..Len(result.rows) :
            LET e == result.rows[k]
            IN \E i \in EntryValues(e) :
                   /\ HoldsMax(i, EntryValues(e))
                   /\ \A j \in EntryValues(e) : HoldsMax(j, EntryValues(e)) => i <= j
                   /\ InWindow(df[i])
                   /\ e.peak_time = df[i].time_label

\* an entry whose group holds its greatest crowding in two rows of different
\* labels, the later row carrying the earlier label
C18_Witness ==
    /\ RankingReturned
    /\ op.rush_hour_type = "morning"
    /\ \E k \in 1..Len(result.rows) :
           \E i, j \in EntryValues(result.rows[k]) :
               /\ i < j
               /\ HoldsMax(i, EntryValues(result.rows[k]))
               /\ HoldsMax(j, EntryValues(result.rows[k]))
               /\ df[j].time_order < df[i].time_order
               /\ result.rows[k].peak_time = df[i].time_label

\* what a raw cell is worth: a number is itself; a missing value, a blank or
\* empty text, the texts "nan" and "None" and any text that is not a number
\* are null; a text that is a number, blanks around it aside, is that number
ExpectedCrowding(cell) ==
    CASE cell.t = "num" -> Real(cell.n)
      [] cell.t \in {"nan", "none"} -> NaN
      [] OTHER ->
            IF BlanksOnlyAround(cell.s) /\ IsNumberText(Unblanked(cell.s))
            THEN NumberTextValue(Unblanked(cell.s))
            ELSE NaN

\* C19: to_tidy_long fails for reasons of the header only, never for what a
\* cell holds; the tidy row of every raw row and time column is emitted, and
\* its crowding is null for an empty or blank text, for "nan" and "None" and
\* for any other text that is not a number, and the number itself for a
\* number and for a text that is a number.
C19_CellCoercion ==
    /\ pc = "failed" =>
           \/ IdentityColumnAbsent
           \/ DetectedPositions = {}
           \/ \E i, j \in DetectedPositions : i # j /\ raw.cols[i] = raw.cols[j]
    /\ (Transformed /\ err = "") =>
           \A r \in 1..Len(raw.rows) :
               \A i \in DetectedPositions :
                   \E x \in 1..Len(tidy) :
                       /\ presort_index[x] = MeltPlace(r, i)
                       /\ tidy[x].crowding = ExpectedCrowding(raw.rows[r][i])

\* a cell holding a text that is not a number: its row is emitted with a
\* null crowding
C19_Witness ==
    /\ Transformed
    /\ err = ""
    /\ Len(raw.rows) = 1
    /\ \E i \in DetectedPositions :
           /\ raw.rows[1][i] = Text(<<"1", " ", "5">>)
           /\ tidy[1].crowding = NaN

\* the time_order the loaded table gives the label l
TimeOrderOfLabel(l) == df[CHOOSE i \in 1..Len(df) : df[i].time_label = l].time_order

\* C20: the time-label columns of the pivot prepare_heatmap_data returns
\* stand in ascending time_order, whatever the selection and the sort mode,
\* also when the labels' order as texts is not their time_order (a service
\* day running past midnight).
C20_PivotColumnsChronological ==
    HeatmapReturned =>
        \A a, b \in 1..Len(result.pivot_df.columns) :
            a < b => TimeOrderOfLabel(result.pivot_df.columns[a])
                         < TimeOrderOfLabel(result.pivot_df.columns[b])

\* C21: under every sort mode the station order prepare_heatmap_data
\* returns lists each station name of the selection's rows exactly once,
\* stations whose crowding is null in every time slot included, and it is
\* the row index of the pivot returned.
C21_SameStationsEveryMode ==
    HeatmapReturned =>
        /\ Range(result.station_order) = {df[i].station_name : i \in SelectionRows}
        /\ \A i, j \in 1..Len(result.station_order) :
               result.station_order[i] = result.station_order[j] => i = j
        /\ result.pivot_df.index = result.station_order

====
